---- MODULE Spec2Model ----
(***************************************************************************)
(* Authentication and session-token lifecycle of the backend:              *)
(* registerUser, loginUser, logoutUser (user.controller.js), verifyJWT     *)
(* (authorisation.js), the user schema with its pre-save hook and token    *)
(* methods (user.model.js) and the /logout route (user.routes.js); the     *)
(* start and the shutdown of the server process (index.js, db/index.js);   *)
(* the contact form of the landing page (cta-section.tsx).                 *)
(*                                                                         *)
(* Every request handler is cut at its awaits on the store: one action is  *)
(* the code that runs between two store operations, together with the      *)
(* store operation it ends in.  Awaits that touch no shared state (bcrypt, *)
(* the upload, jwt signing) stay inside the action that contains them.     *)
(* Requests of different slots interleave freely at those cuts.            *)
(***************************************************************************)
EXTENDS Integers, Sequences, FiniteSets, TLC

\* ---------------------------------------------------------------- bounds
MaxUsers == 2

MaxClock == 1

\* process.env.ACCESS_TOKEN_EXPIRY / REFRESH_TOKEN_EXPIRY, in clock ticks
AccessExpiry == 1

RefreshExpiry == 2

\* the timers of the contact form that can be pending at one time
MaxTimers == 3

\* the requests in flight at one time: two request slots
Slots == {1, 2}

\* ---------------------------------------------------------------- strings
\* JavaScript's undefined, as a field value
Undef == "<undefined>"

\* String.prototype.toLowerCase on the strings of the model
ToLowerCase(s) ==
  CASE s = "Al " -> "al "
    [] s = "Al"  -> "al"
    [] s = " A@x" -> " a@x"
    [] s = "A@x" -> "a@x"
    [] OTHER -> s

\* String.prototype.trim on the strings of the model
Trim(s) ==
  CASE s = " "    -> ""
    [] s = "Al "  -> "Al"
    [] s = "al "  -> "al"
    [] s = " A@x" -> "A@x"
    [] s = " a@x" -> "a@x"
    [] OTHER -> s

\* the schema setters of UserName and Email: lowercase: true, trim: true
LowerTrim(v) == IF v = Undef THEN Undef ELSE Trim(ToLowerCase(v))

\* the schema setter of fullName: trim: true
TrimSetter(v) == IF v = Undef THEN Undef ELSE Trim(v)

\* required: true on a String path: undefined, null and "" are rejected
Required(v) == v # Undef /\ v # ""

\* ---------------------------------------------------------------- inputs
NoBody == [fullName |-> Undef, Email |-> Undef, UserName |-> Undef, password |-> Undef]

\* well-formed registration bodies: an account, a second one, and bodies that
\* collide with them on the handle or on the email up to case and spaces
RegisterBodies ==
  {[fullName |-> "Jo", Email |-> e, UserName |-> u, password |-> "p1"] :
     <<u, e>> \in {<<"al", "a@x">>, <<"Al ", "b@x">>, <<"bo", " A@x">>, <<"bo", "b@x">>}}

\* a third account that collides with none of them
OtherRegisterBodies ==
  {[fullName |-> "Jo", Email |-> "c@x", UserName |-> "cy", password |-> "p2"]}

\* the first of them with one field missing or blank, and the second with
\* a blank name
BrokenRegisterBodies ==
  LET b == [fullName |-> "Jo", Email |-> "a@x", UserName |-> "al", password |-> "p1"]
  IN {[b EXCEPT !.fullName = v] : v \in {Undef, " "}} \cup
     {[b EXCEPT !.Email = v] : v \in {Undef, ""}} \cup
     {[b EXCEPT !.UserName = v] : v \in {Undef, " "}} \cup
     {[b EXCEPT !.password = v] : v \in {Undef, ""}} \cup
     {[b EXCEPT !.UserName = "Al ", !.Email = "b@x", !.fullName = " "]}

\* well-formed login bodies: by handle, by email, by both; right and wrong password
LoginBodies ==
  {[NoBody EXCEPT !.Email = e, !.UserName = u, !.password = p] :
     <<u, e>> \in {<<"al", Undef>>, <<Undef, "b@x">>, <<"Al ", " A@x">>},
     p \in {"p1", "p2"}}

\* login bodies without handle and email, or without a usable password
BrokenLoginBodies ==
  {[NoBody EXCEPT !.password = "p1"],
   [NoBody EXCEPT !.Email = "", !.UserName = "", !.password = "p1"],
   [NoBody EXCEPT !.UserName = "al", !.password = ""],
   [NoBody EXCEPT !.UserName = "al"]}

\* ---------------------------------------------------------------- bcrypt
\* A password value: the plaintext it derives from and how many times
\* bcrypt.hash was applied to it (0: clear text).  NoPassword: field absent.
NoPassword == [plain |-> Undef, rounds |-> -1]

Plain(p) == [plain |-> p, rounds |-> 0]

\* bcrypt.hash(value, 11)
BcryptHash(pw) == [pw EXCEPT !.rounds = @ + 1]

\* faulty variant: every password that is given compares equal
BcryptCompare_AnyPassword(data, stored) ==
  IF data = Undef THEN "throws" ELSE "true"

\* bcrypt.compare(data, hash): "throws" when data is missing
BcryptCompare(data, stored) ==
  IF data = Undef THEN "throws"
  ELSE IF stored.rounds = 1 /\ stored.plain = data THEN "true" ELSE "false"

\* ---------------------------------------------------------------- tokens
AccessSecret == "ACCESS_TOKEN_SECRET"

RefreshSecret == "REFRESH_TOKEN_SECRET"

NoClaims == [_id |-> 0, Email |-> Undef, UserName |-> Undef, fullName |-> Undef]

\* no token at all (undefined), and a string that is not a JWT
NoToken == [kind |-> "none", payload |-> NoClaims, secret |-> "", iat |-> 0, exp |-> 0]

Malformed == [kind |-> "malformed", payload |-> NoClaims, secret |-> "", iat |-> 0, exp |-> 0]

\* jwt.sign(payload, secret, {expiresIn}) at time now
JwtSign(payload, secret, expiresIn, now) ==
  [kind |-> "jwt", payload |-> payload, secret |-> secret, iat |-> now, exp |-> now + expiresIn]

\* faulty variant: the expiry is not checked
JwtVerify_IgnoresExpiry(token, secret, now) ==
  CASE token.kind = "none"      -> [ok |-> FALSE, err |-> "jwt must be provided", payload |-> NoClaims]
    [] token.kind = "malformed" -> [ok |-> FALSE, err |-> "jwt malformed", payload |-> NoClaims]
    [] token.secret # secret    -> [ok |-> FALSE, err |-> "invalid signature", payload |-> NoClaims]
    [] OTHER                    -> [ok |-> TRUE, err |-> "", payload |-> token.payload]

\* jwt.verify(token, secret) at time now: the payload, or the error thrown
JwtVerify(token, secret, now) ==
  CASE token.kind = "none"      -> [ok |-> FALSE, err |-> "jwt must be provided", payload |-> NoClaims]
    [] token.kind = "malformed" -> [ok |-> FALSE, err |-> "jwt malformed", payload |-> NoClaims]
    [] token.secret # secret    -> [ok |-> FALSE, err |-> "invalid signature", payload |-> NoClaims]
    [] now >= token.exp         -> [ok |-> FALSE, err |-> "jwt expired", payload |-> NoClaims]
    [] OTHER                    -> [ok |-> TRUE, err |-> "", payload |-> token.payload]

\* ---------------------------------------------------------------- documents
NoDoc == [_id |-> 0, UserName |-> Undef, Email |-> Undef, fullName |-> Undef,
          avatar |-> Undef, coverImage |-> Undef, password |-> NoPassword,
          refreshToken |-> NoToken]

\* faulty variant: the projection drops the refreshToken only
Select_KeepsPassword(doc) == [doc EXCEPT !.refreshToken = NoToken]

\* .select("-password -refreshToken")
Select(doc) == [doc EXCEPT !.password = NoPassword, !.refreshToken = NoToken]

\* faulty variant: the access token carries the _id only
generateAccessToken_IdOnly(doc, now) ==
  JwtSign([NoClaims EXCEPT !._id = doc._id], AccessSecret, AccessExpiry, now)

\* userSchema.methods.generateAccessToken
generateAccessToken(doc, now) ==
  JwtSign([_id |-> doc._id, Email |-> doc.Email, UserName |-> doc.UserName,
           fullName |-> doc.fullName], AccessSecret, AccessExpiry, now)

\* userSchema.methods.generateRefreshToken
generateRefreshToken(doc, now) ==
  JwtSign([NoClaims EXCEPT !._id = doc._id], RefreshSecret, RefreshExpiry, now)

\* ---------------------------------------------------------------- state
VARIABLES
  users,            \* the user collection, in insertion order; _id = position
  clock,            \* the system clock, in ticks
  req,              \* per slot: the request being served and its response
  client,           \* the token pair of the last login response received
  ignoreUndefined,  \* whether the driver drops undefined-valued filter keys
  proc,             \* the server process: database connection, HTTP server, exit
  form              \* the contact form of the landing page

vars == <<users, clock, req, client, ignoreUndefined, proc, form>>

NoCreds == [access |-> NoToken, refresh |-> NoToken]

\* no Authorization header
NoHeader == [scheme |-> "", tok |-> NoToken]

Idle == [op |-> "idle", pc |-> "idle", body |-> NoBody, avatarFile |-> FALSE,
         avatar |-> Undef, coverImage |-> Undef, doc |-> NoDoc, newId |-> 0,
         cookie |-> NoToken, header |-> NoHeader, token |-> NoToken,
         accessToken |-> NoToken, refreshToken |-> NoToken, savedId |-> 0,
         nextCalled |-> FALSE, status |-> 0, error |-> "none", message |-> "",
         data |-> NoDoc, cookies |-> "none", fault |-> "none"]

Ids == 1..Len(users)

\* a request enters the lowest idle slot, once the responses of the finished
\* requests have been taken (Collect); slots are interchangeable, and taking a
\* response changes nothing on the server
Free(r) ==
  /\ req[r].pc = "idle"
  /\ \A q \in Slots : req[q].pc # "done"
  /\ \A q \in Slots : q < r => req[q].pc # "idle"

\* ---------------------------------------------------------------- errors
\* the request q ends with a response; its locals are gone
Fail(q, statusCode, error, message) ==
  [Idle EXCEPT !.op = q.op, !.pc = "done", !.body = q.body, !.avatarFile = q.avatarFile,
               !.avatar = q.avatar, !.cookie = q.cookie, !.header = q.header,
               !.token = q.token, !.status = statusCode,
               !.error = error, !.message = message]

\* throw new ApiError(statusCode, message), carried to the HTTP boundary
ThrowApiError(q, statusCode, message) == Fail(q, statusCode, "ApiError", message)

\* any other exception (TypeError, mongoose ValidationError, E11000
\* MongoServerError, bcrypt Error) leaving an asyncHandler-wrapped handler:
\* it carries no statusCode and surfaces as an internal error
ThrowOther(q, name) == Fail(q, 500, name, name)

\* the process as node starts it: connectDB() is called, nothing listens,
\* no signal handler is registered
Starting ==
  [db |-> "connecting", server |-> "none", handlers |-> FALSE, signal |-> "none",
   exitCode |-> -1, killed |-> FALSE]

\* the process once the callback of connectDB().then has run
Serving == [Starting EXCEPT !.db = "connected", !.server = "listening", !.handlers = TRUE]

\* the contact form as CTASection first renders it: useState("idle"), empty
\* inputs, no timer
FormFields == {"first-name", "last-name", "email", "company", "message"}

RequiredFields == {"first-name", "last-name", "email", "company"}

InitialForm ==
  [formState |-> "idle", filled |-> [f \in FormFields |-> FALSE], timers |-> 0]

\* an empty collection, no request, an unused page
Fresh ==
  /\ users = << >>
  /\ clock = 0
  /\ req = [r \in Slots |-> Idle]
  /\ client = NoCreds
  /\ ignoreUndefined \in BOOLEAN
  /\ form = InitialForm

\* the server is up
Init ==
  /\ Fresh
  /\ proc = Serving

Tick ==
  /\ clock < MaxClock
  /\ clock' = clock + 1
  /\ UNCHANGED <<users, req, client, ignoreUndefined, proc, form>>

\* ---------------------------------------------------------------- store
\* faulty variant: the value of a clause is compared as it was sent
ClauseMatches_Exact(stored, q) ==
  IF q = Undef THEN ignoreUndefined ELSE stored = q

\* one clause {path: value} of a filter on a lowercase+trim String path: the
\* value is cast by the path's setters; an undefined value is dropped from
\* the filter (the clause matches every document) or sent as null (it
\* matches none, the path being required), as the driver is configured
ClauseMatches(stored, q) ==
  IF q = Undef THEN ignoreUndefined ELSE stored = LowerTrim(q)

\* faulty variant: the pre-check finds nobody
FindOneMatches_Nobody(UserName, Email) == {}

\* user.findOne({$or: [{UserName}, {Email}]}): the _ids that match
FindOneMatches(UserName, Email) ==
  {i \in Ids : \/ ClauseMatches(users[i].UserName, UserName)
               \/ ClauseMatches(users[i].Email, Email)}

\* faulty variant: the collection has no unique index
DuplicateKey_NoIndex(doc) == FALSE

\* the unique indexes on UserName and Email
DuplicateKey(doc) ==
  \E i \in Ids : users[i].UserName = doc.UserName \/ users[i].Email = doc.Email

\* faulty variant: the hook hashes the password on every save
PreSave_Always(doc, passwordModified) == [doc EXCEPT !.password = BcryptHash(@)]

\* userSchema.pre("save"): rehash only when the password path was modified
PreSave(doc, passwordModified) ==
  IF passwordModified THEN [doc EXCEPT !.password = BcryptHash(@)] ELSE doc

\* faulty variant: the save goes on only when the hook has called next()
PreSaveSettles_OnlyOnNext(passwordModified) == passwordModified

\* the pre-save hook is an async function: the save goes on when the promise
\* it returns settles, whether or not the hook called next() (it calls it in
\* the password-modified branch only)
PreSaveSettles(passwordModified) == passwordModified \in BOOLEAN

\* faulty variant: the password path is given another field of the body
NewDocument_WrongField(b, avatar, coverImage) ==
  [_id |-> Len(users) + 1,
   UserName |-> LowerTrim(ToLowerCase(b.UserName)),
   Email |-> LowerTrim(b.Email),
   fullName |-> TrimSetter(b.fullName),
   avatar |-> avatar,
   coverImage |-> coverImage,
   password |-> Plain(b.fullName),
   refreshToken |-> NoToken]

\* the document user.create builds from its argument: schema setters applied
NewDocument(b, avatar, coverImage) ==
  [_id |-> Len(users) + 1,
   UserName |-> LowerTrim(ToLowerCase(b.UserName)),
   Email |-> LowerTrim(b.Email),
   fullName |-> TrimSetter(b.fullName),
   avatar |-> avatar,
   coverImage |-> coverImage,
   password |-> Plain(b.password),
   refreshToken |-> NoToken]

\* schema validation of a new document: the required paths
Validates(doc) ==
  /\ Required(doc.UserName) /\ Required(doc.Email) /\ Required(doc.fullName)
  /\ Required(doc.avatar) /\ Required(doc.password.plain)

\* ---------------------------------------------------------------- register
\* [fullName, Email, UserName, password].some(field => field?.trim() === "")
SomeFieldBlank(b) ==
  \E v \in {b.fullName, b.Email, b.UserName, b.password} : v # Undef /\ Trim(v) = ""

\* the handles stored, or still to be stored by the registrations in flight
\* and by one with body b: at most one user per handle comes to be stored
Handles(b) ==
  {users[i].UserName : i \in Ids} \cup {LowerTrim(b.UserName)} \cup
  {LowerTrim(req[q].body.UserName) : q \in {x \in Slots : req[x].op = "register" /\ req[x].pc # "done"}}

\* registerUser, lines 33-41: read the body, validate, issue findOne
RegisterStart(r, b, avatarFile) ==
  /\ Free(r)
  /\ Cardinality(Handles(b)) <= MaxUsers
  /\ LET q == [Idle EXCEPT !.op = "register", !.body = b, !.avatarFile = avatarFile]
     IN req' = [req EXCEPT ![r] =
          IF SomeFieldBlank(b)
          THEN ThrowApiError(q, 400, "all fields are required")
          ELSE [q EXCEPT !.pc = "findOne"]]
  /\ UNCHANGED <<users, clock, client, ignoreUndefined, proc, form>>

\* faulty variant: create is reached without the avatar being checked
RegisterFindOne_NoAvatarCheck(r, avatarUpload) ==
  /\ req[r].op = "register" /\ req[r].pc = "findOne"
  /\ req' = [req EXCEPT ![r] =
       IF FindOneMatches(req[r].body.UserName, req[r].body.Email) # {}
       THEN ThrowApiError(@, 409, "UserName or Email already exists")
       ELSE [@ EXCEPT !.pc = "create", !.coverImage = "",
                      !.avatar = IF req[r].avatarFile /\ avatarUpload
                                 THEN "a.png" ELSE Undef]]
  /\ UNCHANGED <<users, clock, client, ignoreUndefined, proc, form>>

\* registerUser, lines 41-64: findOne answers; the avatar file is looked up
\* and uploaded (no cover image is sent: coverImageurl stays "")
RegisterFindOne(r, avatarUpload) ==
  /\ req[r].op = "register" /\ req[r].pc = "findOne"
  /\ req' = [req EXCEPT ![r] =
       IF FindOneMatches(req[r].body.UserName, req[r].body.Email) # {}
       THEN ThrowApiError(@, 409, "UserName or Email already exists")
       ELSE IF ~req[r].avatarFile
       THEN ThrowApiError(@, 400, "Avatar File 1 is required")
       ELSE IF ~avatarUpload
       THEN ThrowApiError([@ EXCEPT !.avatar = "null"], 400, "Avatar File 2 is Required")
       ELSE [@ EXCEPT !.pc = "create", !.avatar = "a.png", !.coverImage = ""]]
  /\ UNCHANGED <<users, clock, client, ignoreUndefined, proc, form>>

\* registerUser, lines 65-74: user.create
RegisterCreate(r) ==
  /\ req[r].op = "register" /\ req[r].pc = "create"
  /\ PreSaveSettles(TRUE)
  /\ LET b == req[r].body
         doc == NewDocument(b, req[r].avatar, req[r].coverImage)
         saved == PreSave(doc, TRUE)
     IN IF b.UserName = Undef
        THEN /\ req' = [req EXCEPT ![r] = ThrowOther(@, "TypeError")]
             /\ users' = users
        ELSE IF ~Validates(doc)
        THEN /\ req' = [req EXCEPT ![r] = ThrowOther(@, "ValidationError")]
             /\ users' = users
        ELSE IF DuplicateKey(saved)
        THEN /\ req' = [req EXCEPT ![r] = ThrowOther(@, "MongoServerError")]
             /\ users' = users
        ELSE /\ Len(users) < MaxUsers
             /\ users' = Append(users, saved)
             /\ req' = [req EXCEPT ![r].pc = "reread", ![r].newId = saved._id]
  /\ UNCHANGED <<clock, client, ignoreUndefined, proc, form>>

\* registerUser, lines 75-84: findById(newuser._id).select(...) and respond
RegisterReread(r) ==
  /\ req[r].op = "register" /\ req[r].pc = "reread"
  /\ req' = [req EXCEPT ![r] =
       IF req[r].newId \in Ids
       THEN [Fail(@, 201, "none", "user registered succesfully")
               EXCEPT !.newId = req[r].newId, !.data = Select(users[req[r].newId])]
       ELSE ThrowApiError(@, 500, "Something went wrong while registering the user")]
  /\ UNCHANGED <<users, clock, client, ignoreUndefined, proc, form>>

\* ---------------------------------------------------------------- login
\* !v in JavaScript for a body field
Falsy(v) == v = Undef \/ v = ""

\* faulty variant: the password is not looked at before the lookup
LoginStart_NoPasswordCheck(r, b) ==
  /\ Free(r)
  /\ LET q == [Idle EXCEPT !.op = "login", !.body = b]
     IN req' = [req EXCEPT ![r] =
          IF Falsy(b.Email) /\ Falsy(b.UserName)
          THEN ThrowApiError(q, 400, "enter username or email to continue")
          ELSE [q EXCEPT !.pc = "findOne"]]
  /\ UNCHANGED <<users, clock, client, ignoreUndefined, proc, form>>

\* loginUser, lines 89-94: read the body, validate, issue findOne
LoginStart(r, b) ==
  /\ Free(r)
  /\ LET q == [Idle EXCEPT !.op = "login", !.body = b]
     IN req' = [req EXCEPT ![r] =
          IF Falsy(b.Email) /\ Falsy(b.UserName)
          THEN ThrowApiError(q, 400, "enter username or email to continue")
          ELSE IF b.password = ""
          THEN ThrowApiError(q, 400, "enter your password")
          ELSE [q EXCEPT !.pc = "findOne"]]
  /\ UNCHANGED <<users, clock, client, ignoreUndefined, proc, form>>

\* loginUser, lines 94-109: findOne answers (any one matching document);
\* existedUser.isPasswordCorrect(password); generateAccessAndRefreshToken is
\* entered and issues findById
LoginFindOne(r) ==
  /\ req[r].op = "login" /\ req[r].pc = "findOne"
  /\ LET m == FindOneMatches(req[r].body.UserName, req[r].body.Email)
     IN \/ /\ m = {}
           /\ req' = [req EXCEPT ![r] = ThrowApiError(@, 409, "User donot exist")]
        \/ \E i \in m :
             LET existedUser == users[i]
                 isPasswordCorrect == BcryptCompare(req[r].body.password, existedUser.password)
             IN req' = [req EXCEPT ![r] =
                  CASE isPasswordCorrect = "throws" -> ThrowOther(@, "Error")
                    [] isPasswordCorrect = "false" -> ThrowApiError(@, 401, "invalid user credentials")
                    [] OTHER -> [@ EXCEPT !.pc = "findById", !.doc = existedUser]]
  /\ UNCHANGED <<users, clock, client, ignoreUndefined, proc, form>>

\* what can go wrong inside generateAccessAndRefreshToken: findById answers
\* null or rejects, jwt.sign throws (no secret in the environment)
FindByIdFaults == {"none", "notFound", "signThrows"}

\* and the save of the user document is rejected by the database
SaveFaults == {"none", "saveRejects"}

\* generateAccessAndRefreshToken, lines 9-18 and 25-26: findById answers;
\* both tokens are signed; User.refreshToken is assigned and save is issued;
\* whatever is thrown on the way is caught and replaced by ApiError 500
LoginFindById(r, fault) ==
  /\ req[r].op = "login" /\ req[r].pc = "findById"
  /\ req' = [req EXCEPT ![r] =
       IF fault = "none" /\ req[r].doc._id \in Ids
       THEN LET User == users[req[r].doc._id]
            IN [@ EXCEPT !.pc = "save", !.savedId = User._id,
                         !.accessToken = generateAccessToken(User, clock),
                         !.refreshToken = generateRefreshToken(User, clock)]
       ELSE [ThrowApiError(@, 500, "problem is here") EXCEPT !.fault = fault]]
  /\ UNCHANGED <<users, clock, client, ignoreUndefined, proc, form>>

\* the response of a successful login, lines 110-124
LoginResponse(r) ==
  IF req[r].accessToken.kind = "none" \/ req[r].refreshToken.kind = "none"
  THEN ThrowApiError(req[r], 500, "Failed to generate authentication tokens")
  ELSE [Fail(req[r], 200, "none", "User Logged in succesfully")
          EXCEPT !.data = req[r].doc,
                    !.accessToken = req[r].accessToken,
                    !.refreshToken = req[r].refreshToken,
                    !.savedId = req[r].savedId, !.cookies = "set"]

\* faulty variant: a refresh token that is already stored is not overwritten
LoginSave_KeepsStored(r, fault) ==
  /\ req[r].op = "login" /\ req[r].pc = "save"
  /\ LET id == req[r].savedId
     IN users' = IF users[id].refreshToken.kind = "jwt" THEN users
                 ELSE [users EXCEPT ![id].refreshToken = req[r].refreshToken]
  /\ req' = [req EXCEPT ![r] = LoginResponse(r)]
  /\ client' = IF req'[r].status = 200
               THEN [access |-> req'[r].accessToken, refresh |-> req'[r].refreshToken]
               ELSE client
  /\ UNCHANGED <<clock, ignoreUndefined, proc, form>>

\* faulty variant: the refresh token is returned without being saved on the user
LoginSave_NotSaved(r, fault) ==
  /\ req[r].op = "login" /\ req[r].pc = "save"
  /\ req' = [req EXCEPT ![r] = LoginResponse(r)]
  /\ client' = IF req'[r].status = 200
               THEN [access |-> req'[r].accessToken, refresh |-> req'[r].refreshToken]
               ELSE client
  /\ UNCHANGED <<users, clock, ignoreUndefined, proc, form>>

\* faulty variant: the save does not replace a stored refresh token that
\* was signed later than the one of this login
LoginSave_KeepsNewer(r, fault) ==
  /\ req[r].op = "login" /\ req[r].pc = "save"
  /\ LET id == req[r].savedId
     IN users' = IF /\ users[id].refreshToken.kind = "jwt"
                    /\ users[id].refreshToken.iat > req[r].refreshToken.iat
                 THEN users
                 ELSE [users EXCEPT ![id].refreshToken = req[r].refreshToken]
  /\ req' = [req EXCEPT ![r] = LoginResponse(r)]
  /\ client' = IF req'[r].status = 200
               THEN [access |-> req'[r].accessToken, refresh |-> req'[r].refreshToken]
               ELSE client
  /\ UNCHANGED <<clock, ignoreUndefined, proc, form>>

\* faulty variant: a rejected save is swallowed and the login is answered
\* with the tokens that were not stored
LoginSave_IgnoresRejection(r, fault) ==
  /\ req[r].op = "login" /\ req[r].pc = "save"
  /\ users' = IF fault = "none"
              THEN [users EXCEPT ![req[r].savedId].refreshToken = req[r].refreshToken]
              ELSE users
  /\ req' = [req EXCEPT ![r] = [LoginResponse(r) EXCEPT !.fault = fault]]
  /\ client' = IF req'[r].status = 200
               THEN [access |-> req'[r].accessToken, refresh |-> req'[r].refreshToken]
               ELSE client
  /\ UNCHANGED <<clock, ignoreUndefined, proc, form>>

\* generateAccessAndRefreshToken, lines 18 and 25-26, then loginUser, lines
\* 110-124: User.save writes the modified paths of the document after the
\* pre-save hook ran (the password was not modified), and the response is
\* sent; a rejected save is caught and replaced by ApiError 500
LoginSave(r, fault) ==
  /\ req[r].op = "login" /\ req[r].pc = "save"
  /\ PreSaveSettles(FALSE)
  /\ IF fault = "none"
     THEN /\ LET id == req[r].savedId
                 saved == PreSave([users[id] EXCEPT !.refreshToken = req[r].refreshToken], FALSE)
             IN users' = [users EXCEPT ![id].refreshToken = saved.refreshToken,
                                       ![id].password = saved.password]
          /\ req' = [req EXCEPT ![r] = LoginResponse(r)]
     ELSE /\ users' = users
          /\ req' = [req EXCEPT ![r] =
               [ThrowApiError(@, 500, "problem is here") EXCEPT !.fault = fault]]
  /\ client' = IF req'[r].status = 200
               THEN [access |-> req'[r].accessToken, refresh |-> req'[r].refreshToken]
               ELSE client
  /\ UNCHANGED <<clock, ignoreUndefined, proc, form>>

\* ---------------------------------------------------------------- logout
\* a token signed by someone who does not hold the access secret
Forged ==
  [kind |-> "jwt", payload |-> [NoClaims EXCEPT !._id = 1], secret |-> "attacker",
   iat |-> 0, exp |-> MaxClock + AccessExpiry + 1]

\* an access token that was issued to a user whose record is no longer in
\* the collection (no _id in use equals its _id claim)
Orphaned ==
  JwtSign([_id |-> MaxUsers + 1, Email |-> "d@x", UserName |-> "di", fullName |-> "Jo"],
          AccessSecret, AccessExpiry, 0)

\* the cookie accessToken sent with an empty value
EmptyCookie == [NoToken EXCEPT !.kind = "empty"]

\* what a client can put into the accessToken cookie
Credentials ==
  {NoToken, EmptyCookie, Malformed, Forged, Orphaned, client.access, client.refresh}

\* the Authorization header: absent, or a scheme followed by a credential
Headers ==
  {NoHeader} \cup
  [scheme : {"Bearer "}, tok : {Malformed, Forged, client.access}] \cup
  {[scheme |-> "Token ", tok |-> client.access]}

\* req.header("Authorization")?.replace("Bearer ", ""): the JWT that is left,
\* if a JWT is left
ReplaceBearer(h) ==
  CASE h = NoHeader -> NoToken
    [] h.scheme = "Bearer " -> h.tok
    [] OTHER -> Malformed

\* faulty variant: the Authorization header is preferred to the cookie
ExtractToken_HeaderFirst(cookie, header) ==
  IF header.tok.kind # "none" THEN ReplaceBearer(header)
  ELSE IF cookie.kind = "empty" THEN NoToken ELSE cookie

\* req.cookies?.accessToken || req.header("Authorization")?.replace(...)
ExtractToken(cookie, header) ==
  IF cookie.kind \notin {"none", "empty"} THEN cookie ELSE ReplaceBearer(header)

\* what verifyJWT assigns to req.user: the imported model `user` itself (the
\* query of line 176 is neither awaited nor assigned); a model has no _id
ReqUser(payload) == [NoDoc EXCEPT !.fullName = "<model user>"]

\* the documents the filter {_id: id} of findByIdAndUpdate selects; id 0
\* stands for undefined
UpdateTargets(id) ==
  IF id = 0 THEN (IF ignoreUndefined THEN Ids ELSE {}) ELSE {id} \cap Ids

\* faulty variant: the token is accepted only while the user it names holds
\* a refreshToken
verifyJWT_ChecksStore(cookie, header, now) ==
  LET token == ExtractToken(cookie, header)
      Code == JwtVerify(token, AccessSecret, now)
      known == /\ Code.ok
               /\ Code.payload._id \in Ids
               /\ users[Code.payload._id].refreshToken # NoToken
  IN IF known
     THEN [next |-> TRUE, token |-> token, user |-> ReqUser(Code.payload),
           statusCode |-> 0, message |-> ""]
     ELSE [next |-> FALSE, token |-> token, user |-> NoDoc,
           statusCode |-> 400, message |-> IF Code.ok THEN "Invalid Access Token" ELSE Code.err]

\* faulty variant: the token is decoded without its signature being checked
verifyJWT_Decodes(cookie, header, now) ==
  LET token == ExtractToken(cookie, header)
      Code == JwtVerify(token, token.secret, now)
  IN IF Code.ok
     THEN [next |-> TRUE, token |-> token, user |-> ReqUser(Code.payload),
           statusCode |-> 0, message |-> ""]
     ELSE [next |-> FALSE, token |-> token, user |-> NoDoc,
           statusCode |-> 400, message |-> Code.err]

\* verifyJWT, lines 163-188, at time now: whether next() is called, what is
\* attached as req.user, and the ApiError(400, error) thrown otherwise
verifyJWT(cookie, header, now) ==
  LET token == ExtractToken(cookie, header)
      Code == JwtVerify(token, AccessSecret, now)
  IN IF Code.ok
     THEN [next |-> TRUE, token |-> token, user |-> ReqUser(Code.payload),
           statusCode |-> 0, message |-> ""]
     ELSE [next |-> FALSE, token |-> token, user |-> NoDoc,
           statusCode |-> 400, message |-> Code.err]

\* router.route("/logout").post(verifyJWT, logoutUser): verifyJWT runs; when
\* it calls next(), logoutUser runs up to its await and has issued
\* findByIdAndUpdate(req.user._id, {$unset: {refreshToken: 1}})
LogoutVerify(r, cookie, header) ==
  /\ Free(r)
  /\ LET v == verifyJWT(cookie, header, clock)
         q == [Idle EXCEPT !.op = "logout", !.cookie = cookie, !.header = header,
                           !.token = v.token]
     IN req' = [req EXCEPT ![r] =
          IF v.next
          THEN [q EXCEPT !.pc = "update", !.nextCalled = TRUE, !.doc = v.user]
          ELSE ThrowApiError(q, v.statusCode, v.message)]
  /\ UNCHANGED <<users, clock, client, ignoreUndefined, proc, form>>

\* logoutUser, lines 128-145: the update is applied to a selected document,
\* if there is one; both cookies are cleared
LogoutUpdate(r) ==
  /\ req[r].op = "logout" /\ req[r].pc = "update"
  /\ LET targets == UpdateTargets(req[r].doc._id)
     IN \/ /\ targets = {}
           /\ users' = users
        \/ \E i \in targets : users' = [users EXCEPT ![i].refreshToken = NoToken]
  /\ req' = [req EXCEPT ![r] =
       [Fail(@, 200, "none", "user logged out successfully")
          EXCEPT !.nextCalled = TRUE, !.cookies = "cleared"]]
  /\ UNCHANGED <<clock, client, ignoreUndefined, proc, form>>

\* the response of a finished request is taken by its client
Collect(r) ==
  /\ req[r].pc = "done"
  /\ req' = [req EXCEPT ![r] = Idle]
  /\ UNCHANGED <<users, clock, client, ignoreUndefined, proc, form>>

\* ---------------------------------------------------------------- behaviours
\* Two requests at a time, in any interleaving, within one clock tick:
\* well-formed bodies, an avatar with every registration, and as credential
\* nothing or the access token of the last login response.
Register(r) ==
  \/ \E b \in RegisterBodies : RegisterStart(r, b, TRUE)
  \/ RegisterFindOne(r, TRUE)
  \/ RegisterCreate(r)
  \/ RegisterReread(r)

Login(r) ==
  \/ \E b \in LoginBodies : LoginStart(r, b)
  \/ LoginFindOne(r)
  \/ LoginFindById(r, "none")
  \/ LoginSave(r, "none")

Logout(r) ==
  \/ \E cookie \in {NoToken, client.access} : LogoutVerify(r, cookie, NoHeader)
  \/ LogoutUpdate(r)

Next ==
  \/ \E r \in Slots : Register(r)
  \/ \E r \in Slots : Login(r)
  \/ \E r \in Slots : Logout(r)
  \/ \E r \in Slots : Collect(r)

Spec == Init /\ [][Next]_vars

\* One request at a time while the clock advances: every body, with and
\* without the avatar file, uploads that fail, token generation that fails,
\* and every credential.
SeqRegister ==
  \/ \E b \in RegisterBodies \cup OtherRegisterBodies \cup BrokenRegisterBodies,
        avatarFile \in BOOLEAN :
       RegisterStart(1, b, avatarFile)
  \/ \E avatarUpload \in BOOLEAN : RegisterFindOne(1, avatarUpload)
  \/ RegisterCreate(1)
  \/ RegisterReread(1)

SeqLogin ==
  \/ \E b \in LoginBodies \cup BrokenLoginBodies : LoginStart(1, b)
  \/ LoginFindOne(1)
  \/ \E fault \in FindByIdFaults : LoginFindById(1, fault)
  \/ \E fault \in SaveFaults : LoginSave(1, fault)

SeqLogout ==
  \/ \E cookie \in Credentials, header \in Headers : LogoutVerify(1, cookie, header)
  \/ LogoutUpdate(1)

SeqNext ==
  \/ Tick
  \/ SeqRegister
  \/ SeqLogin
  \/ SeqLogout
  \/ Collect(1)

SeqSpec == Init /\ [][SeqNext]_vars

\* One request at a time while the clock advances, with the scheduling of
\* the event loop: the continuation of a login that awaits findOne, findById
\* or save runs once the database has answered, and the database answers (or
\* fails) every call.  Every login body and every failure of token
\* generation; registrations and logouts as in Spec.
SeqFairNext ==
  \/ Tick
  \/ Register(1)
  \/ SeqLogin
  \/ Logout(1)
  \/ Collect(1)

SeqFairSpec ==
  /\ Init /\ [][SeqFairNext]_vars
  /\ WF_vars(LoginFindOne(1))
  /\ WF_vars(\E fault \in FindByIdFaults : LoginFindById(1, fault))
  /\ WF_vars(\E fault \in SaveFaults : LoginSave(1, fault))

\* Two requests at a time, in any interleaving, while the clock advances:
\* the registrations of two accounts, logins of either with its password,
\* and logouts with the access token of the last login response or none.
ConcRegisterBodies ==
  {b \in RegisterBodies : <<b.UserName, b.Email>> \in {<<"al", "a@x">>, <<"bo", "b@x">>}}

ConcLoginBodies ==
  {b \in LoginBodies : b.password = "p1" /\ (b.UserName = Undef \/ b.Email = Undef)}

ConcRegister(r) ==
  \/ \E b \in ConcRegisterBodies : RegisterStart(r, b, TRUE)
  \/ RegisterFindOne(r, TRUE)
  \/ RegisterCreate(r)
  \/ RegisterReread(r)

ConcLogin(r) ==
  \/ \E b \in ConcLoginBodies : LoginStart(r, b)
  \/ LoginFindOne(r)
  \/ LoginFindById(r, "none")
  \/ LoginSave(r, "none")

ConcNext ==
  \/ Tick
  \/ \E r \in Slots : ConcRegister(r)
  \/ \E r \in Slots : ConcLogin(r)
  \/ \E r \in Slots : Logout(r)
  \/ \E r \in Slots : Collect(r)

ConcSpec == Init /\ [][ConcNext]_vars

\* ---------------------------------------------------------------- process
\* the process runs: it has not exited and no signal has killed it
Alive == proc.exitCode = -1 /\ ~proc.killed

\* connectDB, lines 4-6: mongoose.connect resolves
ConnectResolves ==
  /\ Alive /\ proc.db = "connecting"
  /\ proc' = [proc EXCEPT !.db = "connected"]
  /\ UNCHANGED <<users, clock, req, client, ignoreUndefined, form>>

\* connectDB, lines 9-12: mongoose.connect rejects; process.exit(1)
ConnectFails ==
  /\ Alive /\ proc.db = "connecting"
  /\ proc' = [proc EXCEPT !.db = "failed", !.exitCode = 1]
  /\ UNCHANGED <<users, clock, req, client, ignoreUndefined, form>>

\* faulty variant: app.listen is called without waiting for connectDB
Listen_BeforeConnect ==
  /\ Alive /\ proc.db \in {"connecting", "connected"} /\ proc.server = "none"
  /\ proc' = [proc EXCEPT !.server = "listening", !.handlers = TRUE]
  /\ UNCHANGED <<users, clock, req, client, ignoreUndefined, form>>

\* the callback of connectDB().then, lines 11-30: app.listen and the two
\* process.on calls
Listen ==
  /\ Alive /\ proc.db = "connected" /\ proc.server = "none"
  /\ proc' = [proc EXCEPT !.server = "listening", !.handlers = TRUE]
  /\ UNCHANGED <<users, clock, req, client, ignoreUndefined, form>>

\* SIGTERM or SIGINT arrives: the handler of lines 16-29 calls server.close,
\* which stops accepting; while no handler is registered the signal kills
\* the process
Signal(sig) ==
  /\ Alive
  /\ proc' = IF proc.handlers
             THEN [proc EXCEPT !.server = IF @ = "listening" THEN "closing" ELSE @,
                               !.signal = IF @ = "none" THEN sig ELSE @]
             ELSE [proc EXCEPT !.killed = TRUE]
  /\ UNCHANGED <<users, clock, req, client, ignoreUndefined, form>>

\* the server has stopped accepting and its last connection has ended: it
\* is closed and emits 'close'
ServerClosed ==
  /\ Alive /\ proc.server = "closing"
  /\ \A r \in Slots : req[r].pc = "idle"
  /\ proc' = [proc EXCEPT !.server = "closed"]
  /\ UNCHANGED <<users, clock, req, client, ignoreUndefined, form>>

\* the callback of server.close, lines 18-21 and 25-28: process.exit(0)
CloseCallback ==
  /\ Alive /\ proc.server = "closed"
  /\ proc' = [proc EXCEPT !.exitCode = 0]
  /\ UNCHANGED <<users, clock, req, client, ignoreUndefined, form>>

\* a listening server accepts a request
Accept ==
  /\ Alive /\ proc.server = "listening"
  /\ \/ \E b \in ConcRegisterBodies : RegisterStart(1, b, TRUE)
     \/ \E b \in ConcLoginBodies : LoginStart(1, b)
     \/ \E cookie \in {NoToken, client.access} : LogoutVerify(1, cookie, NoHeader)

\* a running process goes on with the request it has accepted
Serve ==
  /\ Alive
  /\ \/ RegisterFindOne(1, TRUE) \/ RegisterCreate(1) \/ RegisterReread(1)
     \/ LoginFindOne(1) \/ LoginFindById(1, "none") \/ LoginSave(1, "none")
     \/ LogoutUpdate(1)
     \/ Collect(1)

\* The life of the process, from node src/index.js to its exit, with one
\* request at a time.
LifeInit ==
  /\ Fresh
  /\ proc = Starting

LifeNext ==
  \/ ConnectResolves
  \/ ConnectFails
  \/ Listen
  \/ \E sig \in {"SIGTERM", "SIGINT"} : Signal(sig)
  \/ ServerClosed
  \/ CloseCallback
  \/ Accept
  \/ Serve

LifeSpec == LifeInit /\ [][LifeNext]_vars

\* ---------------------------------------------------------------- contact form
\* the <form> is rendered unless formState is "success" (lines 143-157)
FormRendered == form.formState # "success"

\* the visitor fills in or clears an input of the rendered form
Type(f) ==
  /\ FormRendered
  /\ form' = [form EXCEPT !.filled[f] = ~@]
  /\ UNCHANGED <<users, clock, req, client, ignoreUndefined, proc>>

\* handleSubmit, lines 16-24: the browser fires onSubmit of the rendered
\* form when every required input has a value; setFormState("submitting")
\* and a timer is started (a submit event may arrive while an earlier timer
\* is pending)
handleSubmit ==
  /\ FormRendered
  /\ \A f \in RequiredFields : form.filled[f]
  /\ form.timers < MaxTimers
  /\ form' = [form EXCEPT !.formState = "submitting", !.timers = @ + 1]
  /\ UNCHANGED <<users, clock, req, client, ignoreUndefined, proc>>

\* faulty variant: the timer puts the form back for another submission
TimerFires_Resets ==
  /\ form.timers > 0
  /\ form' = [InitialForm EXCEPT !.timers = form.timers - 1]
  /\ UNCHANGED <<users, clock, req, client, ignoreUndefined, proc>>

\* the callback of setTimeout, lines 21-23: setFormState("success"); the
\* form is replaced by the thank-you card and its inputs are gone
TimerFires ==
  /\ form.timers > 0
  /\ form' = [InitialForm EXCEPT !.formState = "success", !.timers = form.timers - 1]
  /\ UNCHANGED <<users, clock, req, client, ignoreUndefined, proc>>

\* The contact form in the browser: the visitor types and submits, and the
\* browser runs every timer that was started.
FormNext ==
  \/ \E f \in FormFields : Type(f)
  \/ handleSubmit
  \/ TimerFires

FormSpec == Init /\ [][FormNext]_vars /\ WF_vars(TimerFires)

\* ---------------------------------------------------------------- claims
\* a field value that is present and not empty after trimming
NonBlank(v) == v # Undef /\ Trim(v) # ""

\* a stored user other than the one request q created holds q's handle or
\* email (as stored: lower-cased and trimmed)
HeldByAnother(q) ==
  \E i \in Ids : /\ i # q.newId
                 /\ \/ users[i].UserName = LowerTrim(q.body.UserName)
                    \/ users[i].Email = LowerTrim(q.body.Email)

\* C1: a finished register request whose four fields are non-blank, whose
\* avatar file was sent and uploaded, and whose UserName and Email no other
\* stored user holds, was answered 201 with the created user, and that user
\* object has no password and no refreshToken field.
C1_RegisterSucceeds ==
  \A r \in Slots :
    ( /\ req[r].op = "register" /\ req[r].pc = "done"
      /\ NonBlank(req[r].body.fullName) /\ NonBlank(req[r].body.Email)
      /\ NonBlank(req[r].body.UserName) /\ NonBlank(req[r].body.password)
      /\ req[r].avatarFile /\ req[r].avatar # "null"
      /\ ~HeldByAnother(req[r]) )
    => /\ req[r].status = 201 /\ req[r].error = "none"
       /\ req[r].newId \in Ids
       /\ req[r].data._id = req[r].newId
       /\ req[r].data.UserName = LowerTrim(req[r].body.UserName)
       /\ req[r].data.password = NoPassword
       /\ req[r].data.refreshToken = NoToken

\* a second account has just been registered
C1_Witness ==
  \E r \in Slots :
    /\ req[r].op = "register" /\ req[r].pc = "done" /\ req[r].status = 201
    /\ req[r].newId = 2 /\ ~HeldByAnother(req[r])
    /\ users[2].password # NoPassword

\* the body's UserName or Email equals the stored one of a user that is not
\* the one this request created
DuplicateOfStored(b, own) ==
  \E i \in Ids : i # own /\ (users[i].UserName = b.UserName \/ users[i].Email = b.Email)

\* some body field is present and empty after trimming
HasBlankField(b) ==
  \E v \in {b.fullName, b.Email, b.UserName, b.password} : v # Undef /\ Trim(v) = ""

\* C2 as stated: every step of a register request whose UserName or Email
\* equals that of a stored user leaves the stored records as they are, and
\* the request ends with ApiError 409.
C2_Original ==
  [][\A r \in Slots :
       ( /\ req'[r] # req[r] /\ req'[r].op = "register"
         /\ DuplicateOfStored(req'[r].body, req'[r].newId) )
       => /\ users' = users
          /\ req'[r].pc = "done" => (req'[r].status = 409 /\ req'[r].error = "ApiError")]_vars

\* C2, amended: the same for the requests that have no blank field (a blank
\* field is answered 400 before the store is consulted).
C2_DuplicateRejected ==
  [][\A r \in Slots :
       ( /\ req'[r] # req[r] /\ req'[r].op = "register"
         /\ ~HasBlankField(req'[r].body)
         /\ DuplicateOfStored(req'[r].body, req'[r].newId) )
       => /\ users' = users
          /\ req'[r].pc = "done" => (req'[r].status = 409 /\ req'[r].error = "ApiError")]_vars

\* a registration that repeats a stored UserName or Email was answered 409
C2_Witness ==
  \E r \in Slots :
    /\ req[r].op = "register" /\ req[r].pc = "done" /\ req[r].status = 409
    /\ ~HasBlankField(req[r].body)
    /\ DuplicateOfStored(req[r].body, 0)

\* C3: no two stored users have the same UserName and no two the same
\* Email, compared as stored (lower-cased and trimmed); the stored values
\* are in that form.
C3_Unique ==
  \A i, j \in Ids :
    /\ users[i].UserName = LowerTrim(users[i].UserName)
    /\ users[i].Email = LowerTrim(users[i].Email)
    /\ i # j => /\ users[i].UserName # users[j].UserName
                /\ users[i].Email # users[j].Email

\* two users are stored and a registration that raced with the second one
\* was turned down by the unique index
C3_Witness ==
  /\ Len(users) = 2
  /\ \E r \in Slots : req[r].op = "register" /\ req[r].error = "MongoServerError"

\* the handle or the email of request q is held by a stored user
HeldByStored(q) ==
  \E i \in Ids : \/ users[i].UserName = LowerTrim(q.body.UserName)
                 \/ users[i].Email = LowerTrim(q.body.Email)

\* C4: when a register request that passed the findOne pre-check reaches
\* create after a racing request stored the same UserName or Email, no
\* record is created or overwritten and the request fails with status 409.
C4_RaceLoserConflict ==
  [][\A r \in Slots :
       ( /\ req[r].op = "register" /\ req[r].pc = "create"
         /\ req'[r] # req[r]
         /\ HeldByStored(req[r]) )
       => /\ users' = users
          /\ req'[r].pc = "done"
          /\ req'[r].status = 409]_vars

\* a well-formed password: a string that is present and not empty
PasswordGiven(b) == b.password # Undef /\ b.password # ""

\* C5: a login answered 200 carries two signed tokens, and the refreshToken
\* stored on the record of the user that logged in is the one returned.
C5_LoginIssuesTokens ==
  \A r \in Slots :
    (req[r].op = "login" /\ req[r].pc = "done" /\ req[r].status = 200)
    => /\ req[r].accessToken.kind = "jwt"
       /\ req[r].refreshToken.kind = "jwt"
       /\ req[r].accessToken # req[r].refreshToken
       /\ req[r].data._id \in Ids
       /\ req[r].accessToken.payload._id = req[r].data._id
       /\ req[r].refreshToken.payload._id = req[r].data._id
       /\ users[req[r].data._id].refreshToken = req[r].refreshToken
       /\ req[r].cookies = "set"

\* the second registered user logged in a tick after the first request
C5_Witness ==
  \E r \in Slots :
    /\ req[r].op = "login" /\ req[r].pc = "done" /\ req[r].status = 200
    /\ req[r].data._id = 2 /\ req[r].refreshToken.iat = 1
    /\ users[2].refreshToken = req[r].refreshToken

\* the outcome C6 requires of the step that answers request r
RejectedUnauthorized(r) ==
  /\ req'[r].pc = "done"
  /\ req'[r].status = 401 /\ req'[r].error = "ApiError"
  /\ req'[r].accessToken = NoToken /\ req'[r].refreshToken = NoToken
  /\ req'[r].cookies = "none"
  /\ users' = users

\* password p verifies against the hash stored for user i
Verifies(p, i) == p # Undef /\ users[i].password = [plain |-> p, rounds |-> 1]

\* the stored users that body b names by its UserName or by its Email
Named(b) ==
  {i \in Ids : \/ users[i].UserName = LowerTrim(b.UserName)
               \/ users[i].Email = LowerTrim(b.Email)}

\* this step decides the login request in slot r (it answers it, or lets it
\* go on to issue tokens), the body names a stored user, and the body's
\* password verifies against none of the users the lookup selects
DecidesWrongPassword(r) ==
  /\ req'[r].op = "login" /\ req'[r] # req[r]
  /\ Named(req'[r].body) # {}
  /\ req[r].pc \in {"idle", "findOne"}
  /\ req'[r].pc \in {"done", "findById"}
  /\ \A i \in FindOneMatches(req'[r].body.UserName, req'[r].body.Email) :
       ~Verifies(req'[r].body.password, i)

\* C6 as stated: a login request for an existing user whose password does
\* not verify against the stored hash ends with 401, without tokens or
\* cookies, the store unchanged (an empty or absent password verifies
\* against no hash).
C6_Original ==
  [][\A r \in Slots : DecidesWrongPassword(r) => RejectedUnauthorized(r)]_vars

\* C6, amended: the same for a password that is a non-empty string (the
\* empty password is answered 400 before the store is consulted, and an
\* absent one makes bcrypt.compare throw).
C6_WrongPasswordRejected ==
  [][\A r \in Slots :
       (DecidesWrongPassword(r) /\ PasswordGiven(req'[r].body))
       => RejectedUnauthorized(r)]_vars

\* a login naming a stored user with another password than theirs was
\* answered 401
C6_Witness ==
  \E r \in Slots :
    /\ req[r].op = "login" /\ req[r].pc = "done" /\ req[r].status = 401
    /\ PasswordGiven(req[r].body)
    /\ \E i \in Ids : /\ users[i].UserName = LowerTrim(req[r].body.UserName)
                      /\ ~Verifies(req[r].body.password, i)
                      /\ users[i].refreshToken # NoToken

\* C7: the user object in the body of a login answered 200, the user the
\* request named, has neither the password hash nor a refreshToken.
C7_LoginUserSanitized ==
  \A r \in Slots :
    ( /\ req[r].op = "login" /\ req[r].pc = "done" /\ req[r].status = 200
      /\ req[r].data._id \in Named(req[r].body) )
    => /\ req[r].data.password = NoPassword
       /\ req[r].data.refreshToken = NoToken

\* token t is an access token in force at time now: signed with the access
\* secret and not expired
ValidAccessToken(t, now) ==
  t.kind = "jwt" /\ t.secret = AccessSecret /\ now < t.exp

\* C8: once a logout request that carried a valid, unexpired access token of
\* stored user U was answered, U's record holds no refreshToken.
C8_LogoutClearsToken ==
  \A r \in Slots :
    ( /\ req[r].op = "logout" /\ req[r].pc = "done" /\ req[r].status = 200
      /\ ValidAccessToken(req[r].token, clock)
      /\ req[r].token.payload._id \in Ids )
    => users[req[r].token.payload._id].refreshToken = NoToken

\* this step is verifyJWT deciding on the logout request that enters slot r
VerifyStep(r) ==
  /\ req[r].pc = "idle" /\ req'[r].op = "logout"

\* C9: a logout request reaches logoutUser only after verifyJWT called
\* next(), and a request whose token is not a valid access token (none,
\* malformed, wrongly signed, expired) is answered by verifyJWT: logoutUser
\* is not entered, the store is not updated and no cookie is cleared.
C9_VerifyBeforeLogout ==
  [][\A r \in Slots :
       /\ (req'[r].op = "logout" /\ req'[r] # req[r] /\ req'[r].pc = "update")
          => (VerifyStep(r) /\ req'[r].nextCalled)
       /\ (req'[r].op = "logout" /\ req'[r] # req[r] /\ req'[r].cookies = "cleared")
          => (req[r].pc = "update" /\ req[r].nextCalled)
       /\ (VerifyStep(r) /\ ~ValidAccessToken(req'[r].token, clock))
          => /\ req'[r].pc = "done" /\ ~req'[r].nextCalled
             /\ req'[r].cookies = "none"
             /\ users' = users]_vars

\* a logout request with an access token that was issued by a login and has
\* expired since was turned down
C9_Witness ==
  \E r \in Slots :
    /\ req[r].op = "logout" /\ req[r].pc = "done" /\ ~req[r].nextCalled
    /\ req[r].token.kind = "jwt" /\ req[r].token.secret = AccessSecret
    /\ req[r].token.exp <= clock
    /\ req[r].token.payload._id \in Ids
    /\ users[req[r].token.payload._id].refreshToken # NoToken

\* the four cases of C10 for the token t a request presents at time now
NoCredential(t) == t.kind = "none"
MalformedToken(t) == t.kind = "malformed"
WrongSecret(t) == t.kind = "jwt" /\ t.secret # AccessSecret
Expired(t, now) == t.kind = "jwt" /\ t.secret = AccessSecret /\ t.exp <= now

\* C10: with no credential, a malformed token, a token signed with another
\* secret than the access secret, or an expired token, verifyJWT throws an
\* ApiError with status 400 and does not call next().
C10_VerifyRejects ==
  [][\A r \in Slots :
       ( /\ VerifyStep(r)
         /\ \/ NoCredential(req'[r].token) \/ MalformedToken(req'[r].token)
            \/ WrongSecret(req'[r].token) \/ Expired(req'[r].token, clock) )
       => /\ req'[r].status = 400 /\ req'[r].error = "ApiError"
          /\ ~req'[r].nextCalled]_vars

\* a request with a token signed by another secret was answered 400
C10_Witness ==
  \E r \in Slots :
    /\ req[r].op = "logout" /\ req[r].pc = "done"
    /\ WrongSecret(req[r].token)
    /\ req[r].status = 400 /\ req[r].error = "ApiError" /\ ~req[r].nextCalled

\* the record of stored user i as a query with
\* select("-password -refreshToken") returns it
Sanitized(i) ==
  [users[i] EXCEPT !.password = NoPassword, !.refreshToken = NoToken]

\* C11: when verifyJWT has accepted a request and the downstream handler is
\* about to run, req.user is the stored record, without password and
\* refreshToken, of the user whose _id is the _id claim of the token, so
\* that req.user._id is that user's id.
C11_ReqUserIsTokenUser ==
  \A r \in Slots :
    ( /\ req[r].op = "logout" /\ req[r].pc = "update" /\ req[r].nextCalled
      /\ req[r].token.payload._id \in Ids )
    => /\ req[r].doc._id = req[r].token.payload._id
       /\ req[r].doc = Sanitized(req[r].token.payload._id)

\* C12: a request whose access token is correctly signed and unexpired but
\* whose _id claim is the _id of no stored user is rejected by verifyJWT
\* with an ApiError, and next() is not called.
C12_UnknownIdentityRejected ==
  [][\A r \in Slots :
       ( /\ VerifyStep(r)
         /\ ValidAccessToken(req'[r].token, clock)
         /\ req'[r].token.payload._id \notin Ids )
       => /\ req'[r].pc = "done" /\ req'[r].error = "ApiError"
          /\ req'[r].status = 400
          /\ ~req'[r].nextCalled]_vars

\* the credential an Authorization header carries once "Bearer " is removed
\* from it: the token after the prefix; a header of another scheme is left
\* as it is, which is no JWT
HeaderCredential(h) ==
  IF h.scheme = "Bearer " THEN h.tok
  ELSE IF h.scheme = "" THEN NoToken ELSE Malformed

\* verifyJWT decided on the request entering slot r by credential t alone
DecidedOn(r, t) ==
  /\ req'[r].token = t
  /\ req'[r].nextCalled = ValidAccessToken(t, clock)

\* C13 as stated: when the accessToken cookie is present, with whatever
\* value, verifyJWT decides on the cookie's value and the header is not
\* consulted (an empty value is no credential); when the cookie is absent it
\* decides on the Authorization header with "Bearer " removed.
C13_Original ==
  [][\A r \in Slots : VerifyStep(r) =>
       IF req'[r].cookie.kind = "none"
       THEN DecidedOn(r, HeaderCredential(req'[r].header))
       ELSE DecidedOn(r, IF req'[r].cookie.kind = "empty" THEN NoToken
                         ELSE req'[r].cookie)]_vars

\* C13, amended: the cookie is preferred when it is present with a
\* non-empty value; an absent cookie and a cookie with an empty value both
\* make verifyJWT decide on the Authorization header with "Bearer " removed.
C13_CookiePreferred ==
  [][\A r \in Slots : VerifyStep(r) =>
       IF req'[r].cookie.kind \in {"none", "empty"}
       THEN DecidedOn(r, HeaderCredential(req'[r].header))
       ELSE DecidedOn(r, req'[r].cookie)]_vars

\* a request with an invalid cookie token and a valid access token in the
\* Authorization header was turned down on the cookie
C13_Witness ==
  \E r \in Slots :
    /\ req[r].op = "logout" /\ req[r].pc = "done" /\ ~req[r].nextCalled
    /\ req[r].cookie.kind = "malformed"
    /\ req[r].header.scheme = "Bearer "
    /\ ValidAccessToken(req[r].header.tok, clock)
    /\ req[r].token = req[r].cookie

\* a field that is missing from the body or empty after trimming
MissingOrBlank(v) == v = Undef \/ Trim(v) = ""

\* C14: a register request in which one of fullName, Email, UserName and
\* password is missing or empty after trimming is answered 400 by the step
\* that reads its body, before findOne, the upload or create; the store is
\* unchanged.
C14_MissingFieldRejected ==
  [][\A r \in Slots :
       ( /\ req[r].pc = "idle" /\ req'[r].op = "register"
         /\ \E v \in {req'[r].body.fullName, req'[r].body.Email,
                      req'[r].body.UserName, req'[r].body.password} :
              MissingOrBlank(v) )
       => /\ req'[r].pc = "done"
          /\ req'[r].status = 400 /\ req'[r].error = "ApiError"
          /\ users' = users]_vars

\* the register request in slot r, as this step leaves it, has no avatar:
\* no avatar file came with it, or the upload of the file gave no reference
WithoutAvatar(r) ==
  /\ req'[r].op = "register" /\ req'[r] # req[r]
  /\ (~req'[r].avatarFile \/ req'[r].avatar = "null")

\* every stored user has an avatar reference
AvatarsStored(us) ==
  \A i \in 1..Len(us) : us[i].avatar \notin {Undef, "", "null"}

\* C15 as stated: a register request without an avatar never gets as far as
\* create, it ends with status 400, it stores nothing, and every stored
\* user has a non-empty avatar reference.
C15_Original ==
  [][/\ AvatarsStored(users')
     /\ \A r \in Slots : WithoutAvatar(r) =>
          /\ users' = users
          /\ req'[r].pc \in {"findOne", "done"}
          /\ req'[r].pc = "done" =>
               (req'[r].status = 400 /\ req'[r].error = "ApiError")]_vars

\* C15, amended: the same, except that the request ends with status 409
\* when the findOne pre-check, which runs before the avatar is looked at,
\* finds a stored user for its UserName or Email.
C15_AvatarRequired ==
  [][/\ AvatarsStored(users')
     /\ \A r \in Slots : WithoutAvatar(r) =>
          /\ users' = users
          /\ req'[r].pc \in {"findOne", "done"}
          /\ req'[r].pc = "done" =>
               /\ req'[r].error = "ApiError"
               /\ \/ req'[r].status = 400
                  \/ /\ req'[r].status = 409
                     /\ \E i \in Ids :
                          \/ ClauseMatches(users[i].UserName, req'[r].body.UserName)
                          \/ ClauseMatches(users[i].Email, req'[r].body.Email)]_vars

\* a registration with a fresh UserName and Email was answered 400 because
\* the upload of its avatar file gave no reference, while a user is stored
C15_Witness ==
  \E r \in Slots :
    /\ req[r].op = "register" /\ req[r].pc = "done" /\ req[r].status = 400
    /\ req[r].avatarFile /\ req[r].avatar = "null"
    /\ Len(users) = 1 /\ Named(req[r].body) = {}

\* C16: the record a register request creates has the lower-cased (and
\* trimmed) UserName of the body and, as password, the hash of the body's
\* plaintext applied once; and at every step every stored UserName is in
\* lower case and every stored password is a hash applied exactly once,
\* never a plaintext and never a hash of a hash.
C16_HashedOnce ==
  [][/\ \A i \in 1..Len(users') :
          /\ users'[i].UserName = ToLowerCase(users'[i].UserName)
          /\ users'[i].password.rounds = 1
     /\ \A r \in Slots :
          (req[r].op = "register" /\ req[r].pc = "create" /\ req'[r].pc = "reread")
          => /\ Len(users') = Len(users) + 1
             /\ req'[r].newId = Len(users')
             /\ users'[Len(users')].UserName = Trim(ToLowerCase(req[r].body.UserName))
             /\ users'[Len(users')].password =
                  [plain |-> req[r].body.password, rounds |-> 1]]_vars

\* a user registered under a handle given in capitals has logged in, so
\* that the record was saved again after its creation
C16_Witness ==
  \E i \in Ids :
    /\ users[i].UserName = "al" /\ users[i].Email = "b@x"
    /\ users[i].refreshToken # NoToken
    /\ users[i].password = [plain |-> "p1", rounds |-> 1]

\* the stored user that the login or logout request q is about: the user
\* that logs in, or the user of the token presented
AffectedUser(q) ==
  IF q.op = "login" THEN q.savedId ELSE q.token.payload._id

RegisteredPassword(UserName) == IF UserName = "cy" THEN "p2" ELSE "p1"

\* C18: whatever logins and logouts came before, when the lookup of a login
\* with password p has answered, the request passes password verification
\* only for a user that was registered with p, and it is turned down with
\* 401 only if a user the lookup selects was registered with another
\* password than p; otherwise no user was found (409).
C18_PasswordVerification ==
  [][\A r \in Slots :
       ( /\ req[r].op = "login" /\ req[r].pc = "findOne" /\ req'[r] # req[r]
         /\ req[r].body.password # Undef )
       => LET m == FindOneMatches(req[r].body.UserName, req[r].body.Email)
              p == req[r].body.password
          IN \/ /\ req'[r].pc = "findById"
                /\ req'[r].doc._id \in m
                /\ RegisteredPassword(users[req'[r].doc._id].UserName) = p
             \/ /\ req'[r].pc = "done" /\ req'[r].status = 401
                /\ \E i \in m : RegisteredPassword(users[i].UserName) # p
             \/ /\ req'[r].pc = "done" /\ req'[r].status = 409
                /\ m = {}]_vars

\* a user who logged in before, and whose record was saved by that login,
\* passes password verification again with the password of the registration
C18_Witness ==
  \E r \in Slots :
    /\ req[r].op = "login" /\ req[r].pc = "findById"
    /\ req[r].doc.UserName = "al" /\ req[r].body.UserName = "al"
    /\ req[r].body.password = "p1"
    /\ req[r].doc.refreshToken # NoToken
    /\ clock = 1

\* the identity claims of stored user i
ClaimsOf(i) ==
  [_id |-> i, Email |-> users[i].Email, UserName |-> users[i].UserName,
   fullName |-> users[i].fullName]

\* the access token in the answer of a finished login q is signed with the
\* access secret, runs for the configured expiry and carries exactly the
\* claims of the user that logged in
IssuedForUser(q) ==
  /\ q.data._id \in Ids
  /\ q.accessToken.kind = "jwt"
  /\ q.accessToken.secret = AccessSecret
  /\ q.accessToken.exp = q.accessToken.iat + AccessExpiry
  /\ q.accessToken.payload = ClaimsOf(q.data._id)

\* C19: the access token a login issues for user U carries exactly U's _id,
\* Email, UserName and fullName; presented before its expiry it verifies
\* with the access secret to those claims and verifyJWT accepts it, and
\* presented once the expiry has elapsed it is rejected as expired.
C19_AccessTokenRoundTrip ==
  [][\A r \in Slots :
       /\ (req'[r].op = "login" /\ req'[r].pc = "done" /\ req'[r].status = 200
           /\ req'[r] # req[r])
          => (IssuedForUser(req'[r]) /\ client'.access = req'[r].accessToken)
       /\ (VerifyStep(r) /\ client.access.kind = "jwt" /\ req'[r].token = client.access)
          => IF clock < client.access.iat + AccessExpiry
             THEN /\ req'[r].nextCalled
                  /\ JwtVerify(client.access, AccessSecret, clock).payload
                       = ClaimsOf(client.access.payload._id)
             ELSE /\ ~req'[r].nextCalled
                  /\ req'[r].status = 400 /\ req'[r].message = "jwt expired"]_vars

\* the access token of a login made at the second tick was presented in
\* the Authorization header and accepted
C19_Witness ==
  \E r \in Slots :
    /\ req[r].op = "logout" /\ req[r].pc = "update" /\ req[r].nextCalled
    /\ req[r].cookie.kind = "none" /\ req[r].header.scheme = "Bearer "
    /\ req[r].token = client.access /\ req[r].token.iat = 1
    /\ req[r].token.payload = ClaimsOf(req[r].token.payload._id)

\* a body field that was not supplied: missing, or the empty string
NotSupplied(v) == v = Undef \/ v = ""

\* C20: a login request that supplies neither UserName nor Email, or whose
\* password is the empty string, is answered 400 by the step that reads
\* its body, before findOne, the password comparison and the issuing of
\* tokens; the store is unchanged.
C20_LoginValidation ==
  [][\A r \in Slots :
       ( /\ req[r].pc = "idle" /\ req'[r].op = "login"
         /\ \/ NotSupplied(req'[r].body.UserName) /\ NotSupplied(req'[r].body.Email)
            \/ req'[r].body.password = "" )
       => /\ req'[r].pc = "done"
          /\ req'[r].status = 400 /\ req'[r].error = "ApiError"
          /\ req'[r].accessToken = NoToken /\ req'[r].refreshToken = NoToken
          /\ req'[r].cookies = "none"
          /\ users' = users]_vars

\* a login naming a stored user with an empty password was answered 400
C20_Witness ==
  \E r \in Slots :
    /\ req[r].op = "login" /\ req[r].pc = "done" /\ req[r].status = 400
    /\ req[r].body.password = "" /\ Named(req[r].body) # {}
    /\ req[r].message = "enter your password"

C22_LoginOverwritesToken ==
  [][\A r \in Slots :
       ( /\ req[r].op = "login" /\ req'[r].pc = "done" /\ req'[r].status = 200
         /\ req'[r] # req[r]
         /\ client.refresh.kind = "jwt"
         /\ client.refresh.payload._id = req'[r].data._id
         /\ users[req'[r].data._id].refreshToken = client.refresh )
       => /\ users'[req'[r].data._id].refreshToken = req'[r].refreshToken
          /\ client'.refresh = req'[r].refreshToken
          /\ req'[r].refreshToken.iat # client.refresh.iat
             => /\ req'[r].refreshToken # client.refresh
                /\ users'[req'[r].data._id].refreshToken # client.refresh]_vars

\* a user has logged in a second time, a tick after the first login, while
\* the token of the first login was still stored
C22_Witness ==
  \E r \in Slots :
    /\ req[r].op = "login" /\ req[r].pc = "done" /\ req[r].status = 200
    /\ req[r].data.refreshToken.kind = "jwt" /\ req[r].data.refreshToken.iat = 0
    /\ req[r].refreshToken.iat = 1
    /\ users[req[r].data._id].refreshToken = req[r].refreshToken

\* C23: a finished register, login or logout request either succeeded (201
\* for register, 200 for login and logout, no error raised) or ended with
\* an ApiError that carries one of the status codes 400, 401, 409 and 500.
C23_FailuresAreApiErrors ==
  \A r \in Slots :
    req[r].pc = "done"
    => \/ /\ req[r].error = "none"
          /\ req[r].status = IF req[r].op = "register" THEN 201 ELSE 200
       \/ /\ req[r].error = "ApiError"
          /\ req[r].status \in {400, 401, 409, 500}

\* pairs <<as sent, as stored>> of a handle or an email that differ in
\* letter case or surrounding whitespace only
CaseOrSpaceVariants == {<<"Al ", "al">>, <<" A@x", "a@x">>}

\* the body's UserName or Email is such a variant of the stored one of a
\* user that is not the one this request created
VariantOfStored(b, own) ==
  \E i \in Ids :
    /\ i # own
    /\ \/ <<b.UserName, users[i].UserName>> \in CaseOrSpaceVariants
       \/ <<b.Email, users[i].Email>> \in CaseOrSpaceVariants

\* C24 as stated: every step of a register request whose UserName or Email
\* differs from a stored user's in letter case or surrounding whitespace only
\* leaves the stored records as they are, and the request ends with ApiError
\* 409.
C24_Original ==
  [][\A r \in Slots :
       ( /\ req'[r] # req[r] /\ req'[r].op = "register"
         /\ VariantOfStored(req'[r].body, req'[r].newId) )
       => /\ users' = users
          /\ req'[r].pc = "done" => (req'[r].status = 409 /\ req'[r].error = "ApiError")]_vars

\* C24, amended: the same for the requests that have no blank field (a blank
\* field is answered 400 before the store is consulted).
C24_VariantIsDuplicate ==
  [][\A r \in Slots :
       ( /\ req'[r] # req[r] /\ req'[r].op = "register"
         /\ ~HasBlankField(req'[r].body)
         /\ VariantOfStored(req'[r].body, req'[r].newId) )
       => /\ users' = users
          /\ req'[r].pc = "done" => (req'[r].status = 409 /\ req'[r].error = "ApiError")]_vars

\* a registration under a stored handle written with a capital and a
\* trailing space, and with a fresh email, was answered 409
C24_Witness ==
  \E r \in Slots :
    /\ req[r].op = "register" /\ req[r].pc = "done" /\ req[r].status = 409
    /\ req[r].body.UserName = "Al " /\ req[r].body.Email = "b@x"
    /\ \E i \in Ids : users[i].UserName = "al" /\ users[i].Email = "a@x"

\* C25: a step of token generation in which findById finds nothing, signing
\* throws or the save is rejected ends the login with ApiError 500: no cookie
\* is set, no token and no user is returned, the stored records and the
\* client's tokens stay as they were, and the request takes no further step
\* of token generation (nothing is retried); a step of token generation
\* without such a failure never ends in an error.
C25_TokenFailureIs500 ==
  [][\A r \in Slots :
       ( /\ req[r].op = "login" /\ req[r].pc \in {"findById", "save"}
         /\ req'[r] # req[r] )
       => IF req'[r].fault # "none"
          THEN /\ req'[r].pc = "done"
               /\ req'[r].status = 500 /\ req'[r].error = "ApiError"
               /\ req'[r].cookies = "none"
               /\ req'[r].accessToken = NoToken /\ req'[r].refreshToken = NoToken
               /\ req'[r].data = NoDoc
               /\ users' = users /\ client' = client
          ELSE \/ req'[r].pc = "save"
               \/ /\ req'[r].pc = "done" /\ req'[r].status = 200
                  /\ req'[r].accessToken.kind = "jwt"
                  /\ req'[r].refreshToken.kind = "jwt"]_vars

\* the save of a second login was rejected: the login was answered 500 and
\* the user still has the refresh token of the first login
C25_Witness ==
  \E r \in Slots :
    /\ req[r].op = "login" /\ req[r].pc = "done" /\ req[r].fault = "saveRejects"
    /\ req[r].status = 500
    /\ clock = 1
    /\ \E i \in Ids : /\ users[i].UserName = req[r].body.UserName
                      /\ users[i].refreshToken.kind = "jwt"
                      /\ users[i].refreshToken.iat = 0
                      /\ client.refresh = users[i].refreshToken

\* the login request in slot r awaits the database, and its body names a
\* stored user whose password it carries
CorrectLoginPending(r) ==
  /\ req[r].op = "login" /\ req[r].pc \in {"findOne", "findById", "save"}
  /\ \E i \in Named(req[r].body) : Verifies(req[r].body.password, i)

RefreshTokenOf(t, i) ==
  /\ t.kind = "jwt" /\ t.secret = RefreshSecret
  /\ t.payload._id = i
  /\ t.iat \in 0..clock /\ t.exp = t.iat + RefreshExpiry

\* the refreshToken of each stored user is absent or is a refresh token
\* issued to that user
StoredTokensAreOwn ==
  \A i \in Ids : users[i].refreshToken = NoToken \/ RefreshTokenOf(users[i].refreshToken, i)

\* this step is the save of the login request in slot r
SaveStep(r) ==
  /\ req[r].op = "login" /\ req[r].pc = "save" /\ req'[r].pc = "done"

\* this step is the update of the logout request in slot r
UpdateStep(r) ==
  /\ req[r].op = "logout" /\ req[r].pc = "update" /\ req'[r].pc = "done"

\* C28: in every interleaving of logins and logouts, the refreshToken of
\* each stored user is absent or a refresh token issued to that user by a
\* login; it changes only by the save of a login, which stores that login's
\* token whatever is stored then, or by the update of a logout, which
\* removes it, so that it always is the value of the last write; and a login
\* is answered with the token it generated itself, also when another request
\* has written the record in between.
C28_LastWriteWins ==
  [][/\ StoredTokensAreOwn'
     /\ \A i \in Ids :
          users'[i].refreshToken # users[i].refreshToken
          => \E r \in Slots :
               \/ /\ SaveStep(r) /\ req[r].savedId = i
                  /\ users'[i].refreshToken = req[r].refreshToken
               \/ /\ UpdateStep(r)
                  /\ users'[i].refreshToken = NoToken
     /\ \A r \in Slots :
          SaveStep(r)
          => /\ users'[req[r].savedId].refreshToken = req[r].refreshToken
             /\ req'[r].status = 200
             /\ req'[r].refreshToken = req[r].refreshToken
             /\ RefreshTokenOf(req'[r].refreshToken, req'[r].data._id)
             /\ req'[r].data._id = req[r].savedId]_vars

\* two logins of one user overlapped: the one that signed its token first
\* saved first and was answered with that token, the other one has
\* overwritten it since
C28_Witness ==
  \E r, q \in Slots :
    /\ r # q
    /\ req[r].op = "login" /\ req[r].pc = "done" /\ req[r].status = 200
    /\ req[q].op = "login" /\ req[q].pc = "done" /\ req[q].status = 200
    /\ req[r].data._id = req[q].data._id
    /\ req[r].refreshToken.iat = 0 /\ req[q].refreshToken.iat = 1
    /\ users[req[r].data._id].refreshToken = req[q].refreshToken
    /\ users[req[r].data._id].refreshToken # req[r].refreshToken

\* C29: the server listens, closes or is closed only when the database
\* connection has been established, and it starts listening in a step in
\* which the connection already is established; once the connection has
\* failed the process has exited with code 1 and the server never was
\* started; the process exits with code 0 only in a step in which the server
\* already is closed, after SIGTERM or SIGINT has been handled; and a process
\* that has exited does nothing more.
C29_StartupAndShutdown ==
  [][/\ proc'.server # "none" => proc'.db = "connected"
     /\ (proc.server = "none" /\ proc'.server # "none")
        => (proc.db = "connected" /\ proc'.server = "listening")
     /\ proc'.db = "failed" => (proc'.exitCode = 1 /\ proc'.server = "none")
     /\ proc'.exitCode = 1 => proc'.db = "failed"
     /\ (proc.exitCode # 0 /\ proc'.exitCode = 0)
        => (proc.server = "closed" /\ proc.signal \in {"SIGTERM", "SIGINT"})
     /\ proc.server \in {"closing", "closed"}
        => (proc'.server # "listening" /\ proc.signal \in {"SIGTERM", "SIGINT"})
     /\ proc.exitCode # -1 => UNCHANGED vars]_vars

\* the process has served a registration and has exited with code 0 after a
\* SIGINT
C29_Witness ==
  /\ proc.exitCode = 0 /\ proc.server = "closed" /\ proc.signal = "SIGINT"
  /\ Len(users) = 1

\* C30: the state of the contact form changes only from idle to submitting
\* and from submitting to success; a submit leaves it submitting, also a
\* second one while a timer is pending; while it is submitting a timer is
\* pending, and it eventually is success; and from success it never changes
\* again, whatever timers still fire.
C30_FormProgress ==
  /\ [][/\ <<form.formState, form'.formState>> \in
             {<<"idle", "idle">>, <<"idle", "submitting">>,
              <<"submitting", "submitting">>, <<"submitting", "success">>,
              <<"success", "success">>}
        /\ form'.timers > form.timers => form'.formState = "submitting"
        /\ form'.formState = "submitting" => form'.timers > 0]_vars
  /\ (form.formState = "submitting") ~> (form.formState = "success")
  /\ [](form.formState = "success" => [](form.formState = "success"))

\* the form was submitted twice, the first timer has set success and the
\* second one is still pending
C30_Witness ==
  form.formState = "success" /\ form.timers = 1
====
